---------------------------- MODULE Spec2Model ----------------------------
(***************************************************************************)
(* Model of koko/src/main.rs: the command-line front end of Kokoros.       *)
(* One run of `main` is a state machine: the engine is constructed, one of *)
(* the four branches (stream, server, batch file, single text) is entered, *)
(* and that branch drives the synthesis engine and the output sinks.       *)
(*                                                                         *)
(* Text values (the --text value, input lines) are sequences of one-char   *)
(* strings, so that trimming is computed rather than assumed.  Option<T>   *)
(* is a set holding at most one value.                                     *)
(***************************************************************************)
EXTENDS Integers, Sequences, FiniteSets, TLC

VARIABLES
    args,      \* Cli after parsing: text, stream, oai, mono, output, style
    fsKind,    \* what the resolved text names on disk: absent, file, dir
    pc,        \* position of the run in main / handle_streaming_mode
    result,    \* running, or how main ended: ok, the error it returned, panic
    engine,    \* TTSKoko::new has returned (TRUE) or not yet
    txt,       \* the local `txt` of main (Option<String>)
    lines,     \* lines taken so far from stdin (stream) or the file (batch)
    outcomes,  \* per processed line: blank, ok, synth_err, io_err (the engine's answer)
    cur,       \* stream: the line being processed
    pending,   \* stream: raw_audio returned by tts_raw_audio, not yet written
    calls,     \* every call made to the synthesis engine, in order
    files,     \* every audio file the engine wrote, in order
    sink,      \* what was written to stdout, in order
    flushed,   \* how many elements of sink have been flushed
    diag,      \* what was written to stderr, in order
    listener,  \* server: the listener is bound
    acted      \* the branches of main that have performed an action

vars == <<args, fsKind, pc, result, engine, txt, lines, outcomes, cur, pending,
          calls, files, sink, flushed, diag, listener, acted>>

---------------------------------------------------------------------------
(* Bounds and input alphabets *)

\* how many lines stdin or the batch file may hold
MaxLines == 3

Whitespace == {" ", "\t"}

\* the lines an input may hold: blank ones, clean ones, ones with whitespace
\* around the text
InputLines ==
    { <<>>, <<" ">>, <<"a">>, <<"b">>, <<" ", "a", "\t">> }

\* values of --text: a phrase, and something that looks like a path
TextValues == { <<"h", "i">>, <<"f", ".", "t", "x", "t">> }

\* values of --output
OutputValues == { "out" }

\* values of --style, as the terms between the `+` signs, each term split at
\* its `.`: here "af_sky", a term without a weight
StyleValues == { << <<"af_sky">> >> }

---------------------------------------------------------------------------
(* Pure helpers *)

RECURSIVE TrimStart(_)
TrimStart(s) ==
    IF s = <<>> THEN s
    ELSE IF Head(s) \in Whitespace THEN TrimStart(Tail(s)) ELSE s

RECURSIVE TrimEnd(_)
TrimEnd(s) ==
    IF s = <<>> THEN s
    ELSE IF s[Len(s)] \in Whitespace THEN TrimEnd(SubSeq(s, 1, Len(s) - 1))
    ELSE s

\* str::trim
Trim(s) == TrimEnd(TrimStart(s))

\* the built-in paragraph of main (abbreviated): it starts and ends with
\* whitespace, as the raw string literal does
FallbackText == <<"\n", " ", "H", "e", "l", "l", "o", "\n", " ">>

DefaultSavePath == "tmp/output.wav"

\* args.output.unwrap_or_else(|| "tmp/output.wav")
SavePath(a) == IF a.output = {} THEN DefaultSavePath ELSE CHOOSE p \in a.output : TRUE

\* variant: the files are numbered by a counter of the lines kept, not by the
\* position of the line in the file
BatchSavePathKeptCounter(savePath, i) ==
    savePath \o "_" \o ToString(Len(files)) \o ".wav"

\* format!("{save_path}_{i}.wav")
BatchSavePath(savePath, i) == savePath \o "_" \o ToString(i) \o ".wav"

\* variant: no text is substituted when none is given
ResolveTextNoFallback(t) == t

\* if txt.is_none() { txt = Some(fallback) }
ResolveText(t) == IF t = {} THEN {FallbackText} ELSE t

\* path.exists() && path.is_file()
IsExistingFile(kind) == kind = "file"

\* variant: the server flag is tested before the stream flag
SelectModeServerFirst(stream, oai, isFile) ==
    IF oai THEN "Server"
    ELSE IF stream THEN "Stream"
    ELSE IF isFile THEN "Batch"
    ELSE "Single"

\* the if / else-if chain of main, as the branch it enters
SelectMode(stream, oai, isFile) ==
    IF stream THEN "Stream"
    ELSE IF oai THEN "Server"
    ELSE IF isFile THEN "Batch"
    ELSE "Single"

\* WavHeader::new(1, 24000, 32)
HeaderChannels == 1
HeaderSampleRate == 24000
HeaderBits == 32
\* variant: the channel count of the header follows the mono flag
StreamHeaderByMono ==
    [kind |-> "header", channels |-> IF args.mono THEN 1 ELSE 2,
     rate |-> HeaderSampleRate, bits |-> HeaderBits, data |-> <<>>]

StreamHeader ==
    [kind |-> "header", channels |-> HeaderChannels,
     rate |-> HeaderSampleRate, bits |-> HeaderBits, data |-> <<>>]

\* the raw audio the engine returns for a text, and the chunk written for it
Chunk(text) ==
    [kind |-> "chunk", channels |-> 0, rate |-> 0, bits |-> 0, data |-> text]

RawCall(text) ==
    [fn |-> "tts_raw_audio", txt |-> text, save_path |-> "", mono |-> FALSE]

TtsCall(text, path, mono) ==
    [fn |-> "tts", txt |-> text, save_path |-> path, mono |-> mono]

FileWritten(text, path, mono) == [path |-> path, txt |-> text, mono |-> mono]

\* "af_sarah.4+af_nicole.6"
DefaultStyle == << <<"af_sarah", "4">>, <<"af_nicole", "6">> >>

\* args.style.unwrap_or_else(|| "af_sarah.4+af_nicole.6")
Style(a) == IF a.style = {} THEN DefaultStyle ELSE CHOOSE e \in a.style : TRUE

Digits == {"0", "1", "2", "3", "4", "5", "6", "7", "8", "9"}

\* the style grammar: a non-empty list of terms, each a name and one digit
StyleParses(expr) ==
    /\ expr # <<>>
    /\ \A k \in 1..Len(expr) : Len(expr[k]) = 2 /\ expr[k][2] \in Digits

---------------------------------------------------------------------------
(* Initial state: the arguments are parsed, nothing has run *)

ArgsSet ==
    [text : {{}} \cup {{t} : t \in TextValues},
     stream : BOOLEAN, oai : BOOLEAN, mono : BOOLEAN,
     output : {{}} \cup {{p} : p \in OutputValues},
     style : {{}} \cup {{e} : e \in StyleValues}]

\* The fallback paragraph is one path component of more than 255 bytes and
\* holds newlines: no file or directory can have that name, so with no
\* --text the existence test of main is false.
Init ==
    /\ args \in ArgsSet
    /\ fsKind \in {"absent", "file", "dir"}
    /\ (args.text = {} => fsKind = "absent")
    /\ pc = "start"
    /\ result = "running"
    /\ engine = FALSE
    /\ txt = args.text
    /\ lines = <<>>
    /\ outcomes = <<>>
    /\ cur = <<>>
    /\ pending = <<>>
    /\ calls = <<>>
    /\ files = <<>>
    /\ sink = <<>>
    /\ flushed = 0
    /\ diag = <<>>
    /\ listener = FALSE
    /\ acted = {}

---------------------------------------------------------------------------
(* main, up to the branch *)

\* the Err values main can return, and the results that are a failure
Errors == {"SynthesisError", "IoError"}
IsFailure(r) == r \in Errors \cup {"panic"}

\* a run that has returned: main's result is final
Exit(r) ==
    /\ result' = r
    /\ pc' = "exit"

\* variant: the branch is entered with the engine still to be constructed
ConstructDeferred ==
    /\ pc = "start"
    /\ pc' = "dispatch"
    /\ UNCHANGED <<args, fsKind, result, engine, txt, lines, outcomes, cur,
                   pending, calls, files, sink, flushed, diag, listener, acted>>

\* let tts = TTSKoko::new(&model_path).await;
Construct ==
    /\ pc = "start"
    /\ engine' = TRUE
    /\ pc' = "dispatch"
    /\ UNCHANGED <<args, fsKind, result, txt, lines, outcomes, cur, pending,
                   calls, files, sink, flushed, diag, listener, acted>>

\* the model fails to load: the process ends before any branch is entered
ConstructFails ==
    /\ pc = "start"
    /\ Exit("panic")
    /\ UNCHANGED <<args, fsKind, engine, txt, lines, outcomes, cur, pending,
                   calls, files, sink, flushed, diag, listener, acted>>

\* if args.stream {..} else if args.oai {..} else { txt defaulted; file test }
Dispatch ==
    /\ pc = "dispatch"
    /\ LET m == SelectMode(args.stream, args.oai, IsExistingFile(fsKind))
       IN  /\ pc' = CASE m = "Stream" -> "StreamHeader"
                      [] m = "Server" -> "Bind"
                      [] m = "Batch"  -> "ReadFile"
                      [] OTHER        -> "Idle"
           /\ txt' = IF m \in {"Batch", "Single"} THEN ResolveText(txt) ELSE txt
    /\ UNCHANGED <<args, fsKind, result, engine, lines, outcomes, cur, pending,
                   calls, files, sink, flushed, diag, listener, acted>>

---------------------------------------------------------------------------
(* handle_streaming_mode *)

\* a write to stdout followed by a flush: both succeed, the write fails
\* (nothing of the item reaches the sink), or the write succeeds and the
\* flush fails; `next` is where the run goes on
IoOutcomes == {"ok", "write_err", "flush_err"}

\* variant: the results of the write and of the flush are dropped, and the
\* run goes on
WriteAndFlushUnchecked(item, io, next) ==
    /\ sink' = IF io = "write_err" THEN sink ELSE Append(sink, item)
    /\ flushed' = IF io = "ok" THEN Len(sink) + 1 ELSE flushed
    /\ pc' = next
    /\ result' = result

WriteAndFlush(item, io, next) ==
    /\ sink' = IF io = "write_err" THEN sink ELSE Append(sink, item)
    /\ flushed' = IF io = "ok" THEN Len(sink) + 1 ELSE flushed
    /\ IF io = "ok"
       THEN pc' = next /\ result' = result
       ELSE Exit("IoError")

\* variant: the header is written but the flush after it is left out
StreamWriteHeaderNoFlush ==
    /\ pc = "StreamHeader"
    /\ diag' = Append(diag, "banner")
    /\ \E io \in {"ok", "write_err"} :
        /\ sink' = IF io = "write_err" THEN sink ELSE Append(sink, StreamHeader)
        /\ IF io = "ok" THEN pc' = "AwaitingLine" /\ result' = result
           ELSE Exit("IoError")
    /\ acted' = acted \cup {"Stream"}
    /\ UNCHANGED <<args, fsKind, engine, txt, lines, outcomes, cur, pending,
                   calls, files, flushed, listener>>

\* eprintln!(banner); header.write_header(&mut stdout)?; stdout.flush()?;
StreamWriteHeader ==
    /\ pc = "StreamHeader"
    /\ diag' = Append(diag, "banner")
    /\ \E io \in IoOutcomes : WriteAndFlush(StreamHeader, io, "AwaitingLine")
    /\ acted' = acted \cup {"Stream"}
    /\ UNCHANGED <<args, fsKind, engine, txt, lines, outcomes, cur, pending,
                   calls, files, listener>>

\* while let Some(line) = lines.next_line().await? { if blank { continue } ..
StreamNextLine ==
    /\ pc = "AwaitingLine"
    /\ Len(lines) < MaxLines
    /\ \E line \in InputLines :
        /\ lines' = Append(lines, line)
        /\ IF Trim(line) = <<>>
           THEN /\ outcomes' = Append(outcomes, "blank")
                /\ UNCHANGED <<pc, cur>>
           ELSE /\ cur' = line
                /\ pc' = "Synthesizing"
                /\ UNCHANGED outcomes
    /\ acted' = acted \cup {"Stream"}
    /\ UNCHANGED <<args, fsKind, result, engine, txt, pending, calls, files,
                   sink, flushed, diag, listener>>

\* variant: end of input does not end the loop, which goes on awaiting a line
StreamEndOfInputIgnored ==
    /\ pc = "AwaitingLine"
    /\ acted' = acted \cup {"Stream"}
    /\ UNCHANGED <<args, fsKind, pc, result, engine, txt, lines, outcomes, cur,
                   pending, calls, files, sink, flushed, diag, listener>>

\* next_line() returns None: the loop ends and the function returns Ok(())
StreamEndOfInput ==
    /\ pc = "AwaitingLine"
    /\ Exit("ok")
    /\ acted' = acted \cup {"Stream"}
    /\ UNCHANGED <<args, fsKind, engine, txt, lines, outcomes, cur, pending,
                   calls, files, sink, flushed, diag, listener>>

\* next_line() returns Err: `?` returns it
StreamReadFails ==
    /\ pc = "AwaitingLine"
    /\ Exit("IoError")
    /\ acted' = acted \cup {"Stream"}
    /\ UNCHANGED <<args, fsKind, engine, txt, lines, outcomes, cur, pending,
                   calls, files, sink, flushed, diag, listener>>

\* what tts_raw_audio can return for the style of the run: Ok or Err, and
\* only Err when the style expression does not parse (the style string is
\* handed to the engine unparsed, so the engine is where it is rejected)
RawOutcomes == IF StyleParses(Style(args)) THEN BOOLEAN ELSE {FALSE}

\* variant: a synthesis error is returned with `?` instead of being reported
StreamSynthesizeAborts ==
    /\ pc = "Synthesizing"
    /\ calls' = Append(calls, RawCall(cur))
    /\ \E ok \in RawOutcomes :
        IF ok
        THEN /\ pending' = Chunk(cur)
             /\ outcomes' = Append(outcomes, "ok")
             /\ pc' = "Emitting"
             /\ UNCHANGED <<diag, result>>
        ELSE /\ outcomes' = Append(outcomes, "synth_err")
             /\ Exit("SynthesisError")
             /\ UNCHANGED <<pending, diag>>
    /\ acted' = acted \cup {"Stream"}
    /\ UNCHANGED <<args, fsKind, engine, txt, lines, cur, files, sink,
                   flushed, listener>>

\* match tts.tts_raw_audio(&line, lan, style, speed) { Ok(..) | Err(e) => eprintln }
StreamSynthesize ==
    /\ pc = "Synthesizing"
    /\ calls' = Append(calls, RawCall(cur))
    /\ \E ok \in RawOutcomes :
        IF ok
        THEN /\ pending' = Chunk(cur)
             /\ outcomes' = Append(outcomes, "ok")
             /\ pc' = "Emitting"
             /\ UNCHANGED diag
        ELSE /\ diag' = Append(diag, "error")
             /\ outcomes' = Append(outcomes, "synth_err")
             /\ pc' = "AwaitingLine"
             /\ UNCHANGED pending
    /\ acted' = acted \cup {"Stream"}
    /\ UNCHANGED <<args, fsKind, result, engine, txt, lines, cur, files, sink,
                   flushed, listener>>

\* variant: the newest chunk is put right after the header, ahead of the
\* chunks written before it
StreamEmitNewestFirst ==
    /\ pc = "Emitting"
    /\ sink' = <<Head(sink), pending>> \o Tail(sink)
    /\ flushed' = Len(sink) + 1
    /\ pc' = "AwaitingLine"
    /\ acted' = acted \cup {"Stream"}
    /\ UNCHANGED <<args, fsKind, result, engine, txt, lines, outcomes, cur,
                   pending, calls, files, diag, listener>>

\* variant: the chunk is written but the flush after it is left out
StreamEmitNoFlush ==
    /\ pc = "Emitting"
    /\ \E io \in {"ok", "write_err"} :
        /\ sink' = IF io = "write_err" THEN sink ELSE Append(sink, pending)
        /\ IF io = "ok" THEN pc' = "AwaitingLine" /\ result' = result
           ELSE Exit("IoError")
    /\ acted' = acted \cup {"Stream"}
    /\ UNCHANGED <<args, fsKind, engine, txt, lines, outcomes, cur, pending,
                   calls, files, flushed, diag, listener>>

\* write_audio_chunk(&mut stdout, &raw_audio)?; stdout.flush()?;
StreamEmit ==
    /\ pc = "Emitting"
    /\ \E io \in IoOutcomes : WriteAndFlush(pending, io, "AwaitingLine")
    /\ acted' = acted \cup {"Stream"}
    /\ UNCHANGED <<args, fsKind, engine, txt, lines, outcomes, cur, pending,
                   calls, files, diag, listener>>

---------------------------------------------------------------------------
(* server branch *)

ServerBanner ==
    [kind |-> "text", channels |-> 0, rate |-> 0, bits |-> 0, data |-> <<>>]

\* create_server(tts); println!(..); TcpListener::bind(&addr).await?
ServerBind ==
    /\ pc = "Bind"
    /\ sink' = Append(sink, ServerBanner)
    /\ flushed' = Len(sink) + 1
    /\ \E ok \in BOOLEAN :
        IF ok
        THEN listener' = TRUE /\ pc' = "Serving" /\ result' = result
        ELSE listener' = listener /\ Exit("IoError")
    /\ acted' = acted \cup {"Server"}
    /\ UNCHANGED <<args, fsKind, engine, txt, lines, outcomes, cur, pending,
                   calls, files, diag>>

\* kokoros_openai::serve(..).await? returns
ServerServe ==
    /\ pc = "Serving"
    /\ \E r \in {"ok", "IoError"} : Exit(r)
    /\ acted' = acted \cup {"Server"}
    /\ UNCHANGED <<args, fsKind, engine, txt, lines, outcomes, cur, pending,
                   calls, files, sink, flushed, diag, listener>>

---------------------------------------------------------------------------
(* batch branch *)

\* let file_content = fs::read_to_string(txt_path)?;
BatchReadFile ==
    /\ pc = "ReadFile"
    /\ \E ok \in BOOLEAN :
        IF ok THEN pc' = "ReadingLine" /\ result' = result ELSE Exit("IoError")
    /\ acted' = acted \cup {"Batch"}
    /\ UNCHANGED <<args, fsKind, engine, txt, lines, outcomes, cur, pending,
                   calls, files, sink, flushed, diag, listener>>

\* what tts.tts returns: Ok, or Err from synthesis, or Err from writing the file
TtsOutcomes == {"ok", "synth_err", "io_err"}

\* what tts.tts can return for the style of the run: only Err when the style
\* expression does not parse
EngineOutcomes ==
    IF StyleParses(Style(args)) THEN TtsOutcomes ELSE {"synth_err"}

\* the Err value of a failed call
ErrorOf(o) == IF o = "synth_err" THEN "SynthesisError" ELSE "IoError"

\* one iteration of: for (i, line) in file_content.lines().enumerate()
BatchLine ==
    /\ pc = "ReadingLine"
    /\ Len(lines) < MaxLines
    /\ \E line \in InputLines :
        LET i == Len(lines)
            stripped_line == Trim(line)
            save_path == BatchSavePath(SavePath(args), i)
        IN  /\ lines' = Append(lines, line)
            /\ IF stripped_line = <<>>
               THEN /\ outcomes' = Append(outcomes, "blank")
                    /\ UNCHANGED <<pc, result, calls, files>>
               ELSE \E o \in EngineOutcomes :
                    /\ calls' = Append(calls, TtsCall(stripped_line, save_path, args.mono))
                    /\ outcomes' = Append(outcomes, o)
                    /\ IF o = "ok"
                       THEN /\ files' = Append(files,
                                   FileWritten(stripped_line, save_path, args.mono))
                            /\ UNCHANGED <<pc, result>>
                       ELSE /\ Exit(ErrorOf(o))
                            /\ UNCHANGED files
    /\ acted' = acted \cup {"Batch"}
    /\ UNCHANGED <<args, fsKind, engine, txt, cur, pending, sink, flushed,
                   diag, listener>>

\* variant: the batch loop ends without returning, and main goes on to the
\* single call
BatchDoneFallsThrough ==
    /\ pc = "ReadingLine"
    /\ pc' = "Idle"
    /\ acted' = acted \cup {"Batch"}
    /\ UNCHANGED <<args, fsKind, result, engine, txt, lines, outcomes, cur,
                   pending, calls, files, sink, flushed, diag, listener>>

\* the lines are exhausted: return Ok(())
BatchDone ==
    /\ pc = "ReadingLine"
    /\ Exit("ok")
    /\ acted' = acted \cup {"Batch"}
    /\ UNCHANGED <<args, fsKind, engine, txt, lines, outcomes, cur, pending,
                   calls, files, sink, flushed, diag, listener>>

---------------------------------------------------------------------------
(* single branch *)

\* if let Some(ref text) = txt { tts.tts(TTSOpts {..}) is called
SingleCall ==
    /\ pc = "Idle"
    /\ IF txt = {}
       THEN /\ Exit("ok")
            /\ UNCHANGED calls
       ELSE /\ calls' = Append(calls,
                   TtsCall(CHOOSE t \in txt : TRUE, SavePath(args), args.mono))
            /\ pc' = "SingleSynthesizing"
            /\ UNCHANGED result
    /\ acted' = acted \cup {"Single"}
    /\ UNCHANGED <<args, fsKind, engine, txt, lines, outcomes, cur, pending,
                   files, sink, flushed, diag, listener>>

\* variant: the error of the call is dropped and main returns Ok(())
SingleResultSwallowed(o) == "ok"

\* the result of the call: Ok after which main returns Ok(()), Err returned by `?`
SingleResult(o) == IF o = "ok" THEN "ok" ELSE ErrorOf(o)

\* .. })?; } Ok(())
SingleReturn ==
    /\ pc = "SingleSynthesizing"
    /\ \E o \in EngineOutcomes :
        /\ files' = IF o = "ok"
                    THEN Append(files, FileWritten(calls[Len(calls)].txt,
                                                   SavePath(args), args.mono))
                    ELSE files
        /\ Exit(SingleResult(o))
    /\ acted' = acted \cup {"Single"}
    /\ UNCHANGED <<args, fsKind, engine, txt, lines, outcomes, cur, pending,
                   calls, sink, flushed, diag, listener>>

---------------------------------------------------------------------------

Next ==
    \/ Construct
    \/ ConstructFails
    \/ Dispatch
    \/ StreamWriteHeader
    \/ StreamNextLine
    \/ StreamEndOfInput
    \/ StreamReadFails
    \/ StreamSynthesize
    \/ StreamEmit
    \/ ServerBind
    \/ ServerServe
    \/ BatchReadFile
    \/ BatchLine
    \/ BatchDone
    \/ SingleCall
    \/ SingleReturn

Spec == Init /\ [][Next]_vars

\* The run is one task driven to completion by block_on: engine construction
\* and the branch are reached, the header step runs, a finite input delivers
\* its next line or its end, every synthesis call returns, and the write
\* after it runs.  Nothing forces a read or a write to fail, nor the server
\* to return.
FairSpec ==
    /\ Spec
    /\ WF_vars(Construct \/ ConstructFails)
    /\ WF_vars(Dispatch)
    /\ WF_vars(StreamWriteHeader)
    /\ WF_vars(StreamNextLine \/ StreamEndOfInput)
    /\ WF_vars(StreamSynthesize)
    /\ WF_vars(StreamEmit)

---------------------------------------------------------------------------
(* Properties of the stream branch *)

InStream == "Stream" \in acted

\* the elements of a sequence that satisfy a test, by kind
OfKind(seq, k) == SelectSeq(seq, LAMBDA e : e.kind = k)

\* the loop of handle_streaming_mode has been entered
StreamLoopEntered ==
    \/ pc \in {"AwaitingLine", "Synthesizing", "Emitting"}
    \/ lines # <<>>
    \/ calls # <<>>
    \/ OfKind(sink, "chunk") # <<>>
    \/ (pc = "exit" /\ result = "ok")

\* C1: in Stream mode the header is written at most once in a run; once the
\* loop over the input has been entered (a line was read, a chunk was
\* written, or the run has ended in success, also with no line or only blank
\* lines) exactly one header is in the sink, it is the first element of the
\* sink, and it has been flushed.
C1_HeaderOnceBeforeLoop ==
    args.stream =>
        /\ Len(OfKind(sink, "header")) <= 1
        /\ (InStream /\ StreamLoopEntered) =>
              /\ Len(OfKind(sink, "header")) = 1
              /\ sink[1] = [kind |-> "header", channels |-> 1, rate |-> 24000,
                            bits |-> 32, data |-> <<>>]
              /\ flushed >= 1

\* a stream run over blank lines only that ended in success: the header is
\* the whole output
C1_Witness ==
    /\ InStream
    /\ pc = "exit" /\ result = "ok"
    /\ lines = << <<" ">>, <<>> >>
    /\ Len(sink) = 1 /\ sink[1].kind = "header"
    /\ flushed = 1

\* the chunks the lines processed so far must have produced, in reading order
RECURSIVE ExpectedChunks(_)
ExpectedChunks(n) ==
    IF n = 0 THEN <<>>
    ELSE IF outcomes[n] = "ok"
         THEN Append(ExpectedChunks(n - 1),
                     [kind |-> "chunk", channels |-> 0, rate |-> 0, bits |-> 0,
                      data |-> lines[n]])
         ELSE ExpectedChunks(n - 1)

IsPrefix(a, b) == Len(a) <= Len(b) /\ a = SubSeq(b, 1, Len(a))

\* C2: in Stream mode the chunks in the sink are, in order, the synthesis
\* results of the non-blank lines read so far whose synthesis succeeded:
\* exactly those whenever the loop awaits a line or has ended in success, and
\* otherwise all of them but the chunk of the line still being emitted (or
\* whose write failed).
C2_ChunksInReadOrder ==
    InStream =>
        LET got == OfKind(sink, "chunk")
            exp == ExpectedChunks(Len(outcomes))
        IN  /\ IsPrefix(got, exp)
            /\ Len(got) >= Len(exp) - 1
            /\ (pc \in {"AwaitingLine", "Synthesizing"} \/ result = "ok") => got = exp

\* three lines read, the second failed, the chunks of the first and third
\* (different texts) are in the sink
C2_Witness ==
    /\ InStream
    /\ pc = "AwaitingLine"
    /\ outcomes = <<"ok", "synth_err", "ok">>
    /\ lines[1] # lines[3]
    /\ Len(sink) = 3
    /\ sink[2].data = lines[1] /\ sink[3].data = lines[3]

\* the calls the non-blank lines among the first n lines read must have caused
RECURSIVE ExpectedStreamCalls(_)
ExpectedStreamCalls(n) ==
    IF n = 0 THEN <<>>
    ELSE IF Trim(lines[n]) = <<>> THEN ExpectedStreamCalls(n - 1)
         ELSE Append(ExpectedStreamCalls(n - 1), lines[n])

\* C3: in Stream mode a step in which synthesis fails leaves the sink and its
\* flushed part unchanged, writes to the diagnostic channel, and puts the loop
\* back at awaiting a line with the run still going; and every non-blank line
\* read, also after a failed one, is submitted for synthesis.
C3_FailureStep ==
    (pc = "Synthesizing" /\ outcomes' = Append(outcomes, "synth_err")) =>
        /\ sink' = sink
        /\ flushed' = flushed
        /\ Len(diag') = Len(diag) + 1
        /\ pc' = "AwaitingLine"
        /\ result' = "running"

C3_AllSubmitted ==
    (InStream /\ pc \in {"AwaitingLine", "Emitting", "exit"}) =>
        [i \in 1..Len(calls) |-> calls[i].txt] = ExpectedStreamCalls(Len(lines))

\* C3, as one formula: the failure step leaves the sink alone and the loop
\* going, and every non-blank line read is submitted for synthesis
C3_SynthFailureSkipsOnlyItsLine == [][C3_FailureStep]_vars /\ []C3_AllSubmitted

\* a line failed, and the non-blank line after it was synthesized and emitted
C3_Witness ==
    /\ InStream
    /\ outcomes = <<"synth_err", "ok">>
    /\ Len(calls) = 2
    /\ Len(sink) = 2 /\ sink[2].data = lines[2]
    /\ Len(diag) = 2

---------------------------------------------------------------------------
(* Properties of the batch branch and of per-line failures *)

InBatch == "Batch" \in acted

\* C4: in Batch mode a step in which the call for a line fails (synthesis or
\* file write) leaves the loop going: the next line is still to be read.
C4_FailureStepContinues ==
    (pc = "ReadingLine" /\ Len(outcomes') > Len(outcomes)
        /\ outcomes'[Len(outcomes')] \in {"synth_err", "io_err"}) =>
        /\ pc' = "ReadingLine"
        /\ result' = "running"

\* C4, as one formula: every failing step of the batch loop leaves it going
C4_BatchContinuesAfterError == [][C4_FailureStepContinues]_vars

\* C5: a run in Batch or Stream mode never ends with a synthesis error as its
\* result: a per-line synthesis failure is not the failure of the process.
C5_SynthFailureNotFatal ==
    (InBatch \/ InStream) => result # "SynthesisError"

\* the files (and calls) the first n lines of the file must have produced when
\* none failed: one per non-blank line, named by the line's position
RECURSIVE ExpectedBatchFiles(_)
ExpectedBatchFiles(n) ==
    IF n = 0 THEN <<>>
    ELSE IF Trim(lines[n]) = <<>> THEN ExpectedBatchFiles(n - 1)
         ELSE Append(ExpectedBatchFiles(n - 1),
                     [path |-> (IF args.output = {} THEN "tmp/output.wav"
                                ELSE CHOOSE p \in args.output : TRUE)
                               \o "_" \o ToString(n - 1) \o ".wav",
                      txt |-> Trim(lines[n]),
                      mono |-> args.mono])

NoLineFailed == \A i \in 1..Len(outcomes) : outcomes[i] \in {"ok", "blank"}

\* C6: in Batch mode with no failing line, the files written are exactly one
\* per line that is non-blank after trimming, in order, the file of the line
\* at zero-based position i among all lines being named "P_i.wav" and holding
\* the synthesis of the trimmed line; a blank line causes no call and no file
\* and still takes its index.
C6_BatchFilesByLineIndex ==
    (InBatch /\ NoLineFailed) =>
        /\ files = ExpectedBatchFiles(Len(lines))
        /\ Len(calls) = Len(files)
        /\ \A k \in 1..Len(calls) :
              /\ calls[k].txt = files[k].txt
              /\ calls[k].save_path = files[k].path

\* the file holds "a", "", "b": the files of index 0 and 2 are written
C6_Witness ==
    /\ InBatch
    /\ pc = "exit" /\ result = "ok"
    /\ lines = << <<"a">>, <<>>, <<"b">> >>
    /\ args.output = {"out"}
    /\ [k \in 1..Len(files) |-> files[k].path] = <<"out_0.wav", "out_2.wav">>

---------------------------------------------------------------------------
(* Properties of the choice of the branch *)

\* the mode the claim names for the arguments of the run
ClaimedMode ==
    IF args.stream THEN "Stream"
    ELSE IF args.oai THEN "Server"
    ELSE IF args.text # {} /\ fsKind = "file" THEN "Batch"
    ELSE "Single"

ModePositions(m) ==
    CASE m = "Stream" -> {"StreamHeader", "AwaitingLine", "Synthesizing", "Emitting"}
      [] m = "Server" -> {"Bind", "Serving"}
      [] m = "Batch"  -> {"ReadFile", "ReadingLine"}
      [] m = "Single" -> {"Idle", "SingleSynthesizing"}

\* C7: the branch a run enters is Stream when the stream flag is set (whatever
\* oai and the text are), else Server when oai is set, else Batch when the
\* text names an existing regular file, else Single (also for a directory or
\* no file); only that branch's actions occur in the run, and a run that got
\* past engine construction and ended has performed them.
C7_ModePrecedence ==
    /\ acted \subseteq {ClaimedMode}
    /\ pc \notin {"start", "dispatch", "exit"} => pc \in ModePositions(ClaimedMode)
    /\ (pc = "exit" /\ result # "panic") => acted = {ClaimedMode}

\* both flags set and the text names a file: the run is a stream run
C7_Witness ==
    /\ args.stream /\ args.oai /\ args.text # {} /\ fsKind = "file"
    /\ acted = {"Stream"}
    /\ pc = "exit"

\* C8: in Stream mode every text handed to the engine is the trimmed form of
\* a non-blank line, and the calls are those of the non-blank lines read.
C8_StreamSubmitsTrimmedLine ==
    InStream =>
        /\ \A k \in 1..Len(calls) :
              calls[k].txt = Trim(calls[k].txt) /\ calls[k].txt # <<>>
        /\ Len(calls) <= Len(SelectSeq(lines, LAMBDA l : Trim(l) # <<>>))

---------------------------------------------------------------------------
(* Properties of the single branch *)

InSingle == "Single" \in acted

NoTextNoFlags == args.text = {} /\ ~args.stream /\ ~args.oai

\* C9: with no text and neither flag, the text of the run is the fallback
\* paragraph from the branch on, only Single acts, the one synthesis call of
\* the run carries the fallback paragraph and the configured (default) output
\* path, and the one file written (when the call succeeds) is at that path,
\* without an index suffix.
C9_FallbackSingle ==
    NoTextNoFlags =>
        LET path == IF args.output = {} THEN "tmp/output.wav"
                    ELSE CHOOSE p \in args.output : TRUE
            call == [fn |-> "tts", txt |-> FallbackText, save_path |-> path,
                     mono |-> args.mono]
        IN  /\ acted \subseteq {"Single"}
            /\ pc \in {"Idle", "SingleSynthesizing"} => txt = {FallbackText}
            /\ IsPrefix(calls, <<call>>)
            /\ (pc = "SingleSynthesizing" \/ (pc = "exit" /\ result # "panic"))
                  => calls = <<call>>
            /\ IsPrefix(files, << [path |-> path, txt |-> FallbackText,
                                   mono |-> args.mono] >>)
            /\ result = "ok" => Len(files) = 1

\* no text, no flags, no output option: the fallback was written to the
\* default path
C9_Witness ==
    /\ NoTextNoFlags /\ args.output = {}
    /\ pc = "exit" /\ result = "ok"
    /\ Len(calls) = 1 /\ calls[1].txt = FallbackText
    /\ Len(files) = 1 /\ files[1].path = "tmp/output.wav"

\* C10: in Single mode exactly one synthesis call is made; the run ends in
\* success exactly when the call succeeded (its file is written), and when the
\* call failed the run ends with that error; a failed run stays failed.
C10_SingleState ==
    InSingle =>
        /\ Len(calls) = 1 /\ Len(files) <= 1
        /\ pc = "SingleSynthesizing" => (result = "running" /\ files = <<>>)
        /\ pc = "exit" => /\ result = "ok" <=> Len(files) = 1
                          /\ files = <<>> => result \in Errors

C10_FailedStays == IsFailure(result) => result' = result

\* C10, as one formula: one call, its failure is the run's failure, and a
\* failure is never turned into success
C10_SingleCallFailureFatal == []C10_SingleState /\ [][C10_FailedStays]_vars

\* a single run whose call failed in synthesis: one call, no file, an error
C10_Witness ==
    /\ InSingle
    /\ pc = "exit" /\ result = "SynthesisError"
    /\ Len(calls) = 1 /\ files = <<>>

---------------------------------------------------------------------------
(* Properties of the style expression and of engine construction *)

StyleMalformed == ~StyleParses(Style(args))

\* C11: with a malformed style expression no synthesis call is made in any
\* mode, no input line is read in Stream mode, and a run that got past engine
\* construction and ended has ended with a failure result.
C11_MalformedStyleFatalBeforeSynthesis ==
    StyleMalformed =>
        /\ calls = <<>>
        /\ (InStream => lines = <<>>)
        /\ (pc = "exit" => IsFailure(result))

\* C12: in Stream mode, whenever the loop awaits a line (and when the run
\* has ended in success) everything written to the sink has been flushed.
C12_FlushedWhenAwaiting ==
    (InStream /\ (pc = "AwaitingLine" \/ result = "ok")) => flushed = Len(sink)

\* two chunks were written and flushed, and the loop awaits the third line
C12_Witness ==
    /\ InStream
    /\ pc = "AwaitingLine"
    /\ Len(OfKind(sink, "chunk")) = 2
    /\ flushed = 3

\* a run that has ended does nothing more: no line, no call, no write
NothingAfterEnd ==
    pc = "exit" =>
        UNCHANGED <<pc, result, lines, outcomes, calls, files, sink, flushed, diag>>

\* C13: a Stream run whose input is finite and whose synthesis calls return
\* reaches the end of main with a success result, unless a write, a flush or
\* a read fails on the way; once the run has ended (end of input observed) no
\* call is made and nothing is written.
C13_EndOfInputClosesCleanly ==
    /\ ([](result # "IoError")) =>
          ((pc = "StreamHeader") ~> (pc = "exit" /\ result = "ok"))
    /\ [][NothingAfterEnd]_vars

\* end of input was observed after a chunk was written: the run is closed
\* with success
C13_Witness ==
    /\ InStream
    /\ pc = "exit" /\ result = "ok"
    /\ Len(lines) = 2
    /\ Len(OfKind(sink, "chunk")) = 1

\* something of a branch has happened: a header or banner written, a
\* listener bound, a synthesis call made, a file written, a line read
ModeActionHappened ==
    \/ acted # {}
    \/ sink # <<>> \/ diag # <<>>
    \/ listener
    \/ calls # <<>> \/ files # <<>>
    \/ lines # <<>>

\* the engine is constructed by a step taken at the start of main only, and
\* main never returns to its start
ConstructedOnce ==
    /\ engine' # engine => (pc = "start" /\ ~engine /\ engine')
    /\ pc # "start" => pc' # "start"

\* C14: the engine is constructed once, before the branch is chosen: in every
\* mode nothing of a branch (header write, listener bind, synthesis call, file
\* write) has happened unless the engine is constructed, the branch is chosen
\* only with the engine constructed, and a run whose construction failed has
\* done none of them.
C14_EngineBeforeMode ==
    /\ [](ModeActionHappened => engine)
    /\ [](pc \notin {"start", "exit"} => engine)
    /\ [](~engine => (pc = "start" \/ (result = "panic" /\ ~ModeActionHappened)))
    /\ [][ConstructedOnce]_vars

\* the server has bound its listener, with the engine constructed before
C14_Witness ==
    /\ engine
    /\ listener
    /\ acted = {"Server"}

---------------------------------------------------------------------------
(* Properties of the stream header and of sink failures *)

\* C15: every header a Stream run writes declares 1 channel, sample rate
\* 24000 and 32 bits, whatever the mono flag, the style, the text and the
\* output option of the run are: runs that differ in them write one header.
C15_HeaderFixedFormat ==
    \A k \in 1..Len(sink) :
        (InStream /\ sink[k].kind = "header") =>
            /\ sink[k].channels = 1
            /\ sink[k].rate = 24000
            /\ sink[k].bits = 32

\* a stream run with the mono flag unset and a style, a text and an output
\* path given has written the header
C15_Witness ==
    /\ InStream
    /\ ~args.mono /\ args.style # {} /\ args.text # {} /\ args.output # {}
    /\ Len(sink) >= 1 /\ sink[1].kind = "header" /\ sink[1].channels = 1

\* a step of the header write or of the chunk write in which the write or the
\* flush failed: the flushed part of the sink did not grow
SinkFailureStep ==
    /\ pc \in {"StreamHeader", "Emitting"}
    /\ flushed' = flushed
    /\ pc' # pc

\* C16: in Stream mode a step in which the write or the flush of the sink
\* fails ends the run with an I/O error, reading no line and making no call;
\* a run that failed on the sink or on reading a line has ended; and after
\* the end no line is read, no call is made and nothing is written.
C16_FailureEndsRun ==
    SinkFailureStep =>
        /\ pc' = "exit"
        /\ result' = "IoError"
        /\ lines' = lines
        /\ calls' = calls

C16_FailedIsEnded == (InStream /\ result = "IoError") => pc = "exit"

C16_EndIsFinal ==
    (InStream /\ result = "IoError") =>
        (lines' = lines /\ calls' = calls /\ sink' = sink /\ flushed' = flushed
            /\ result' = result)

\* C16, as one formula
C16_StreamIoFailureFatal ==
    /\ [][C16_FailureEndsRun]_vars
    /\ []C16_FailedIsEnded
    /\ [][C16_EndIsFinal]_vars

\* the flush of the first chunk failed: the run has ended with the error,
\* the chunk written and not flushed
C16_Witness ==
    /\ InStream
    /\ pc = "exit" /\ result = "IoError"
    /\ Len(sink) = 2 /\ flushed = 1
    /\ Len(lines) = 1 /\ Len(calls) = 1

---------------------------------------------------------------------------
(* Batch runs do not reach the single call *)

TextNamesFile == ~args.stream /\ ~args.oai /\ args.text # {} /\ fsKind = "file"

ConfiguredPath ==
    IF args.output = {} THEN "tmp/output.wav" ELSE CHOOSE p \in args.output : TRUE

\* C17: when the text names an existing regular file (and no flag is set),
\* the single branch never acts; every synthesis call is for the trimmed form
\* of a non-blank line of the file, with the indexed path of that line; the
\* path string itself is never synthesized; and no file is written at the
\* output path without a suffix, also when the file holds no non-blank line.
C17_BatchNeverSingle ==
    TextNamesFile =>
        /\ "Single" \notin acted
        /\ pc \notin {"Idle", "SingleSynthesizing"}
        /\ \A k \in 1..Len(calls) :
              /\ calls[k].txt \notin args.text
              /\ calls[k].save_path # ConfiguredPath
              /\ \E j \in 1..Len(lines) :
                    /\ Trim(lines[j]) # <<>>
                    /\ calls[k].txt = Trim(lines[j])
                    /\ calls[k].save_path =
                          ConfiguredPath \o "_" \o ToString(j - 1) \o ".wav"
        /\ \A k \in 1..Len(files) : files[k].path # ConfiguredPath
        /\ Len(files) <= Len(calls)

\* a file of blank lines only: the run ended in success with no call and no
\* file
C17_Witness ==
    /\ TextNamesFile
    /\ InBatch
    /\ pc = "exit" /\ result = "ok"
    /\ lines = << <<" ">>, <<>> >>
    /\ calls = <<>> /\ files = <<>>

=============================================================================
